---- MODULE Spec2Model ----
(***************************************************************************)
(* Model of pdf_xtractor: the export pipeline PDFProcessor.process         *)
(* (src/src/converter.py) and the numeric value extractor                  *)
(* PDFProcessor._extract_numeric_values it falls back to.                  *)
(*                                                                         *)
(* One invocation of process is a sequential program; pc is its position.  *)
(* The document collaborator, the filesystem and the progress callback     *)
(* are the environment: every call into them either returns or raises.     *)
(***************************************************************************)
EXTENDS Integers, Sequences, FiniteSets, TLC

(* ------------------------------ bounds ------------------------------- *)
MaxTables == 3
MaxPictures == 2
MaxWords == 3
MaxFormats == 2

(* --------------------------- small helpers --------------------------- *)
Range(s) == {s[i] : i \in 1..Len(s)}

RECURSIVE SeqsUpTo(_, _)
SeqsUpTo(S, n) ==
    IF n = 0 THEN {<<>>}
    ELSE LET shorter == SeqsUpTo(S, n - 1)
         IN  shorter \cup {Append(s, x) : s \in {t \in shorter : Len(t) = n - 1}, x \in S}

IsPrefix(s, t) == Len(s) <= Len(t) /\ \A i \in 1..Len(s) : s[i] = t[i]

(* ------------------------------ state -------------------------------- *)
\* one invocation of PDFProcessor.process
VARIABLES
    options,                 \* ExportOptions snapshot of this invocation
    has_callback,            \* progress_callback is not None
    pc,                      \* position of process
    doc,                     \* "unset" until convert returned result.document
    output_files,            \* local list of produced artifact paths
    tables,                  \* list(doc.tables): TRUE = converts to a grid
    table_dataframes,        \* numbers N of the collected ("Table_N", df)
    table_count,
    fallback_ran,            \* the branch of line 331 was taken
    text_content,            \* doc.export_to_markdown(), read by the fallback stage
    extracted_values,        \* records returned by the extractor
    extracted_values_count,
    pictures,                \* list(doc.pictures), each by what exporting it does
    picture_count,
    kv_data,                 \* the list kv_data is non-empty
    form_data,               \* the list form_data is non-empty
    progress,                \* percents passed to progress_callback, in order
    disk,                    \* paths this invocation created under output_folder
    workbook,                \* sheets written to <name>_tables.xlsx
    exc,                     \* the step whose exception reached line 474
    result                   \* <<>> until process returns, then <<ProcessingResult>>

\* the PDFProcessor and its caller, over several invocations
VARIABLES
    converter,               \* self._converter: "none" or "created"
    run,                     \* number of the invocation of process on this processor
    first                    \* <<>>, or what the first invocation of the same document did

process_vars == <<options, has_callback, pc, doc, output_files, tables, table_dataframes,
                  table_count, fallback_ran, text_content, extracted_values,
                  extracted_values_count, pictures, picture_count, kv_data, form_data,
                  progress, disk, workbook, exc, result>>

\* MainWindow (src/src/gui.py), its workers and what it has done
VARIABLES
    pending_files,           \* self.pending_files
    file_list,               \* the file paths of the items of self.file_list
    current_worker,          \* <<>> for None, or <<file_path>> of self.current_worker
    threads,                 \* the ProcessingWorker threads that exist, oldest first
    enabled,                 \* isEnabled() of the buttons and of the drop zone
    batch,                   \* pending_files when Process Files was last clicked
    handed,                  \* the files given to a worker since then, in order
    removed                  \* the queue entries popped since then, and by whom

gui_vars == <<pending_files, file_list, current_worker, threads, enabled, batch, handed,
              removed>>

\* calls of PDFProcessor._extract_numeric_values on one text
VARIABLES
    text,                    \* the argument
    calls,                   \* how many calls have returned
    extracted,               \* the list extracted, before the noise filter
    filtered,                \* the list returned by the last call
    previous,                \* <<>>, or <<the list returned by the call before>>
    visited                  \* the matches the loops of the last call went through

extractor_vars == <<text, calls, extracted, filtered, previous, visited>>

\* what no step of process changes
outside == <<run, first, gui_vars, extractor_vars>>

vars == <<process_vars, converter, outside>>

Widgets == {"btn_process", "drop_zone", "btn_add_files", "btn_add_folder", "btn_clear",
            "btn_remove"}

\* MainWindow.__init__: an empty queue, no worker, Process Files disabled
MainWindowInit ==
    /\ pending_files = <<>>
    /\ file_list = <<>>
    /\ current_worker = <<>>
    /\ threads = <<>>
    /\ enabled = [w \in Widgets |-> w # "btn_process"]
    /\ batch = <<>>
    /\ handed = <<>>
    /\ removed = <<>>

\* before any call of the extractor
ExtractorInit ==
    /\ text = <<>>
    /\ calls = 0
    /\ extracted = <<>>
    /\ filtered = <<>>
    /\ previous = <<>>
    /\ visited = <<>>

(* ------------------------- names and artifacts ----------------------- *)
\* file_path.name and file_path.stem of the one input document
FileName == "doc.pdf"
base_name == "doc"

\* mutant: the name of an artifact depends on the invocation that writes it
FilePerRun(name, n) == [name |-> name, n |-> n, run |-> run]

\* A path under output_folder: <base_name><name>, n the table or figure number
File(name, n) == [name |-> name, n |-> n]

json_path == File(".json", 0)
md_path == File(".md", 0)
html_path == File(".html", 0)
xlsx_path == File("_tables.xlsx", 0)
csv_path(i) == File("_table_N.csv", i)
values_json_path == File("_extracted_values.json", 0)
values_csv_path == File("_extracted_values.csv", 0)
values_xlsx_path == File("_extracted_values.xlsx", 0)
images_folder == File("_images", 0)
img_path(i) == File("_images/figure_N.png", i)
kv_path == File("_key_values.json", 0)
form_path == File("_form_data.json", 0)

(* ------------------------ the value extractor ------------------------ *)
\* A text is a sequence of characters, each a one-character string; the
\* characters outside ASCII are written "euro", "pound", "yen" and "deg".
UpperLetters == <<"A", "B", "C", "D", "E", "F", "G", "H", "I", "J", "K", "L", "M", "N", "O", "P", "Q", "R", "S", "T", "U", "V", "W", "X", "Y", "Z">>
LowerLetters == <<"a", "b", "c", "d", "e", "f", "g", "h", "i", "j", "k", "l", "m", "n", "o", "p", "q", "r", "s", "t", "u", "v", "w", "x", "y", "z">>
Digit == {"0", "1", "2", "3", "4", "5", "6", "7", "8", "9"}
WordChar == Range(UpperLetters) \cup Range(LowerLetters) \cup Digit \cup {"_"}
Space == {" ", "\n", "\t"}

\* str.lower() on one character
Lower(c) ==
    IF \E k \in 1..26 : UpperLetters[k] = c
    THEN LowerLetters[CHOOSE k \in 1..26 : UpperLetters[k] = c]
    ELSE c

LowerAll(s) == [i \in 1..Len(s) |-> Lower(s[i])]

(* Regular expressions as the re module matches them: a node yields, for a  *)
(* text and a start position, the positions where a match of it can end, in *)
(* the order backtracking tries them; the first is the match.               *)
Cls(S) == <<"cls", S>>
Cat(ns) == <<"cat", ns>>
Alt(ns) == <<"alt", ns>>
Rep(n, lo, hi) == <<"rep", n, lo, hi>>
\* {lo,}, + and *: no upper limit
More(n, lo) == <<"more", n, lo>>
WB == <<"wb">>
\* a literal word under re.IGNORECASE
Lit(w) == Cat([k \in 1..Len(w) |-> Cls({w[k], Lower(w[k])})])

\* \b: exactly one of the two neighbouring characters is a word character
IsBoundary(t, i) ==
    LET before == i > 1 /\ i - 1 <= Len(t) /\ t[i - 1] \in WordChar
        after == i >= 1 /\ i <= Len(t) /\ t[i] \in WordChar
    IN  before # after

RECURSIVE Ends(_, _, _), EndsFrom(_, _, _), EndsCat(_, _, _, _), EndsAlt(_, _, _, _),
          EndsRep(_, _, _, _, _, _), EndsRepFrom(_, _, _, _, _, _, _)
Ends(n, t, i) ==
    CASE n[1] = "cls" -> IF i <= Len(t) /\ t[i] \in n[2] THEN <<i + 1>> ELSE <<>>
      [] n[1] = "wb" -> IF IsBoundary(t, i) THEN <<i>> ELSE <<>>
      [] n[1] = "cat" -> EndsCat(n[2], 1, t, <<i>>)
      [] n[1] = "alt" -> EndsAlt(n[2], 1, t, i)
      [] n[1] = "rep" -> EndsRep(n[2], n[3], n[4], t, i, 0)
      [] n[1] = "more" -> EndsRep(n[2], n[3], Len(t) + 1, t, i, 0)

EndsFrom(n, t, starts) ==
    IF starts = <<>> THEN <<>>
    ELSE Ends(n, t, Head(starts)) \o EndsFrom(n, t, Tail(starts))

EndsCat(ns, k, t, starts) ==
    IF k > Len(ns) THEN starts ELSE EndsCat(ns, k + 1, t, EndsFrom(ns[k], t, starts))

EndsAlt(ns, k, t, i) ==
    IF k > Len(ns) THEN <<>> ELSE Ends(ns[k], t, i) \o EndsAlt(ns, k + 1, t, i)

\* greedy repetition: one more repetition is tried before stopping
EndsRep(n, lo, hi, t, i, c) ==
    (IF c < hi THEN EndsRepFrom(n, lo, hi, t, Ends(n, t, i), i, c + 1) ELSE <<>>)
    \o (IF c >= lo THEN <<i>> ELSE <<>>)

EndsRepFrom(n, lo, hi, t, starts, i, c) ==
    IF starts = <<>> THEN <<>>
    ELSE (IF Head(starts) > i THEN EndsRep(n, lo, hi, t, Head(starts), c) ELSE <<>>)
         \o EndsRepFrom(n, lo, hi, t, Tail(starts), i, c)

\* re.finditer: the non-overlapping matches, left to right, as <<start, end>>
\* with end the position after the last matched character
\* the positions at which the pattern matches a non-empty string
MatchStarts(pattern, t) ==
    SelectSeq([p \in 1..Len(t) |-> p],
              LAMBDA p : LET es == Ends(pattern, t, p) IN es # <<>> /\ es[1] > p)

\* the scan: the first match at or after pos, then on from its end
RECURSIVE Scan(_, _, _, _)
Scan(pattern, t, starts, pos) ==
    IF starts = <<>> THEN <<>>
    ELSE IF Head(starts) < pos THEN Scan(pattern, t, Tail(starts), pos)
    ELSE LET end == Ends(pattern, t, Head(starts))[1]
         IN  <<<<Head(starts), end>>>> \o Scan(pattern, t, Tail(starts), end)

FindIter(pattern, t, pos) == Scan(pattern, t, MatchStarts(pattern, t), pos)

D == Cls(Digit)
DCP == Cls(Digit \cup {",", "."})
WS == Cls(Space)
DateSep == Cls({"-", "/"})
PhoneSep == Cls({"-", "."} \cup Space)
CurrencyCode ==
    Alt(<<Lit(<<"U", "S", "D">>), Lit(<<"E", "U", "R">>), Lit(<<"G", "B", "P">>),
          Lit(<<"J", "P", "Y">>), Lit(<<"C", "N", "Y">>)>>)

\* the pattern catalog: <<pattern, default_tag, confidence>>
patterns == <<
    <<Cat(<<Cls({"$", "euro", "pound", "yen"}), More(WS, 0), More(DCP, 1),
            Rep(Cat(<<Cls({"."}), Rep(D, 2, 2)>>), 0, 1)>>), "currency", "high">>,
    <<Alt(<<Cat(<<CurrencyCode, More(WS, 0), More(DCP, 1)>>),
            Cat(<<More(DCP, 1), More(WS, 0), CurrencyCode>>)>>),
      "currency", "high">>,
    <<Cat(<<More(DCP, 1), More(WS, 0), Cls({"%"})>>), "percentage", "high">>,
    <<Cat(<<WB, Rep(D, 4, 4), DateSep, Rep(D, 1, 2), DateSep, Rep(D, 1, 2), WB>>),
      "date", "high">>,
    <<Cat(<<WB, Rep(D, 1, 2), DateSep, Rep(D, 1, 2), DateSep, Rep(D, 2, 4), WB>>),
      "date", "medium">>,
    <<Cat(<<WB, Alt(<<Cat(<<Cls({"1"}), Cls({"9"})>>), Cat(<<Cls({"2"}), Cls({"0"})>>)>>),
            Rep(D, 2, 2), WB>>), "year", "medium">>,
    <<Cat(<<WB, Rep(D, 3, 3), Rep(PhoneSep, 0, 1), Rep(D, 3, 3), Rep(PhoneSep, 0, 1),
            Rep(D, 4, 4), WB>>), "phone", "high">>,
    <<Cat(<<WB, Rep(D, 1, 3), More(Cat(<<Cls({","}), Rep(D, 3, 3)>>), 1),
            Rep(Cat(<<Cls({"."}), More(D, 1)>>), 0, 1), WB>>), "quantity", "medium">>,
    <<Cat(<<WB, More(D, 1), Cls({"."}), More(D, 1), WB>>), "decimal", "medium">>,
    <<Cat(<<WB, More(D, 1), WB>>), "integer", "low">>
>>

\* the context keywords, in declaration order: <<tag, keywords>>
context_tags == <<
    <<"price", <<<<"p", "r", "i", "c", "e">>,
        <<"c", "o", "s", "t">>,
        <<"f", "e", "e">>,
        <<"c", "h", "a", "r", "g", "e">>,
        <<"a", "m", "o", "u", "n", "t">>,
        <<"t", "o", "t", "a", "l">>,
        <<"s", "u", "b", "t", "o", "t", "a", "l">>,
        <<"p", "a", "y", "m", "e", "n", "t">>,
        <<"p", "a", "i", "d">>>>>>,
    <<"quantity", <<<<"q", "t", "y">>,
        <<"q", "u", "a", "n", "t", "i", "t", "y">>,
        <<"c", "o", "u", "n", "t">>,
        <<"n", "u", "m", "b", "e", "r">>,
        <<"u", "n", "i", "t", "s">>,
        <<"i", "t", "e", "m", "s">>,
        <<"p", "i", "e", "c", "e", "s">>,
        <<"p", "c", "s">>>>>>,
    <<"percentage", <<<<"p", "e", "r", "c", "e", "n", "t">>,
        <<"r", "a", "t", "e">>,
        <<"r", "a", "t", "i", "o">>,
        <<"d", "i", "s", "c", "o", "u", "n", "t">>,
        <<"t", "a", "x">>,
        <<"v", "a", "t">>,
        <<"i", "n", "t", "e", "r", "e", "s", "t">>>>>>,
    <<"date", <<<<"d", "a", "t", "e">>,
        <<"d", "a", "t", "e", "d">>,
        <<"i", "s", "s", "u", "e", "d">>,
        <<"d", "u", "e">>,
        <<"e", "x", "p", "i", "r", "e", "s">>,
        <<"v", "a", "l", "i", "d">>,
        <<"f", "r", "o", "m">>,
        <<"t", "o">>,
        <<"u", "n", "t", "i", "l">>>>>>,
    <<"id", <<<<"i", "d">>,
        <<"n", "u", "m", "b", "e", "r">>,
        <<"n", "o">>,
        <<"r", "e", "f">>,
        <<"r", "e", "f", "e", "r", "e", "n", "c", "e">>,
        <<"c", "o", "d", "e">>,
        <<"i", "n", "v", "o", "i", "c", "e">>,
        <<"o", "r", "d", "e", "r">>,
        <<"a", "c", "c", "o", "u", "n", "t">>>>>>,
    <<"measurement", <<<<"k", "g">>,
        <<"l", "b">>,
        <<"o", "z">>,
        <<"g">>,
        <<"m", "g">>,
        <<"k", "m">>,
        <<"m", "i">>,
        <<"c", "m">>,
        <<"m", "m">>,
        <<"m">>,
        <<"f", "t">>,
        <<"i", "n">>,
        <<"l">>,
        <<"m", "l">>,
        <<"g", "a", "l">>>>>>,
    <<"temperature", <<<<"deg", "c">>,
        <<"deg", "f">>,
        <<"c", "e", "l", "s", "i", "u", "s">>,
        <<"f", "a", "h", "r", "e", "n", "h", "e", "i", "t">>,
        <<"t", "e", "m", "p">>,
        <<"t", "e", "m", "p", "e", "r", "a", "t", "u", "r", "e">>>>>>,
    <<"dimension", <<<<"w", "i", "d", "t", "h">>,
        <<"h", "e", "i", "g", "h", "t">>,
        <<"l", "e", "n", "g", "t", "h">>,
        <<"s", "i", "z", "e">>,
        <<"d", "i", "m", "e", "n", "s", "i", "o", "n">>,
        <<"a", "r", "e", "a">>,
        <<"v", "o", "l", "u", "m", "e">>>>>>,
    <<"time", <<<<"h", "o", "u", "r">>,
        <<"m", "i", "n", "u", "t", "e">>,
        <<"s", "e", "c", "o", "n", "d">>,
        <<"h", "r">>,
        <<"m", "i", "n">>,
        <<"s", "e", "c">>,
        <<"a", "m">>,
        <<"p", "m">>>>>>,
    <<"age", <<<<"a", "g", "e">>,
        <<"y", "e", "a", "r", "s", " ", "o", "l", "d">>,
        <<"y", "e", "a", "r", " ", "o", "l", "d">>,
        <<"y", "o">>>>>>,
    <<"score", <<<<"s", "c", "o", "r", "e">>,
        <<"r", "a", "t", "i", "n", "g">>,
        <<"g", "r", "a", "d", "e">>,
        <<"p", "o", "i", "n", "t", "s">>,
        <<"m", "a", "r", "k", "s">>>>>>
>>


ContextRadius == 50

Max(a, b) == IF a > b THEN a ELSE b
Min(a, b) == IF a < b THEN a ELSE b

RECURSIVE LStrip(_)
LStrip(s) == IF s # <<>> /\ Head(s) \in Space THEN LStrip(Tail(s)) ELSE s
RECURSIVE RStrip(_)
RStrip(s) ==
    IF s # <<>> /\ s[Len(s)] \in Space THEN RStrip(SubSeq(s, 1, Len(s) - 1)) ELSE s

\* context = text[start:end].replace('\n', ' ').strip() for the match that
\* starts at position s and ends before position e (positions from 1)
Context(t, s, e) ==
    LET start == Max(0, (s - 1) - ContextRadius)
        end == Min(Len(t), (e - 1) + ContextRadius)
        window == SubSeq(t, start + 1, end)
        spaced == [i \in 1..Len(window) |-> IF window[i] = "\n" THEN " " ELSE window[i]]
    IN  RStrip(LStrip(spaced))

Keep(s, S) == SelectSeq(s, LAMBDA c : c \in S)
Without(s, c) == SelectSeq(s, LAMBDA x : x # c)
Replaced(s, a, b) == [i \in 1..Len(s) |-> IF s[i] = a THEN b ELSE s[i]]

\* str.rfind: the last position of c (from 1), 0 when absent
RFind(s, c) ==
    IF \E i \in 1..Len(s) : s[i] = c
    THEN CHOOSE i \in 1..Len(s) : s[i] = c /\ \A j \in (i + 1)..Len(s) : s[j] # c
    ELSE 0
\* clean_value with every comma taken for a grouping separator
CleanValueCommasOut(value_str) ==
    Without(Keep(value_str, Digit \cup {".", ",", "-"}), ",")

\* clean_value, after the separator handling of lines 175-183
CleanValue(value_str) ==
    LET clean == Keep(value_str, Digit \cup {".", ",", "-"})
    IN  IF RFind(clean, ",") > 0 /\ RFind(clean, ".") > 0
        THEN IF RFind(clean, ",") > RFind(clean, ".")
             THEN Replaced(Without(clean, "."), ",", ".")
             ELSE Without(clean, ",")
        ELSE Without(clean, ",")

\* A float is kept exactly, as sign, integer digits without leading zeros
\* and fraction digits without trailing zeros.
RECURSIVE NoLeadingZeros(_)
NoLeadingZeros(s) == IF s # <<>> /\ Head(s) = "0" THEN NoLeadingZeros(Tail(s)) ELSE s
RECURSIVE NoTrailingZeros(_)
NoTrailingZeros(s) ==
    IF s # <<>> /\ s[Len(s)] = "0" THEN NoTrailingZeros(SubSeq(s, 1, Len(s) - 1)) ELSE s

Float(neg, int, frac) ==
    LET i == NoLeadingZeros(int)
        f == NoTrailingZeros(frac)
    IN  [neg |-> neg /\ (i # <<>> \/ f # <<>>), int |-> i, frac |-> f]

Zero == Float(FALSE, <<>>, <<>>)

AllDigits(s) == \A i \in 1..Len(s) : s[i] \in Digit

\* float(s) accepts, over the characters clean_value can hold, an optional
\* sign and digits with at most one point and at least one digit
IsFloatLiteral(s) ==
    LET body == IF s # <<>> /\ Head(s) = "-" THEN Tail(s) ELSE s
        point == RFind(body, ".")
    IN  IF point = 0 THEN body # <<>> /\ AllDigits(body)
        ELSE /\ AllDigits(SubSeq(body, 1, point - 1))
             /\ AllDigits(SubSeq(body, point + 1, Len(body)))
             /\ Len(body) > 1

ParseFloat(s) ==
    LET neg == s # <<>> /\ Head(s) = "-"
        body == IF neg THEN Tail(s) ELSE s
        point == RFind(body, ".")
    IN  IF point = 0 THEN Float(neg, body, <<>>)
        ELSE Float(neg, SubSeq(body, 1, point - 1), SubSeq(body, point + 1, Len(body)))
\* numeric made of the digits of clean_value, whatever stands between them
NumericOfDigits(value_str) ==
    LET clean_value == CleanValue(value_str)
    IN  IF Keep(clean_value, Digit) # <<>>
        THEN Float(FALSE, Keep(clean_value, Digit), <<>>)
        ELSE Zero

\* numeric = float(clean_value) if clean_value else 0.0; ValueError gives 0.0
Numeric(value_str) ==
    LET clean_value == CleanValue(value_str)
    IN  IF clean_value # <<>> /\ IsFloatLiteral(clean_value)
        THEN ParseFloat(clean_value)
        ELSE Zero

\* numeric_value < 10
LessThanTen(x) == x.neg \/ Len(x.int) <= 1

\* kw in context_lower
Contains(s, kw) ==
    \E i \in 1..(Len(s) - Len(kw) + 1) : SubSeq(s, i, i + Len(kw) - 1) = kw
\* the last context category with a keyword in the context
LastHit(context_lower) ==
    LET hits == {k \in 1..Len(context_tags) :
                    \E j \in 1..Len(context_tags[k][2]) :
                        Contains(context_lower, context_tags[k][2][j])}
    IN  IF hits = {} THEN 0 ELSE CHOOSE k \in hits : \A h \in hits : k >= h

\* the first context category, in declaration order, with a keyword in the
\* context; 0 when there is none
FirstHit(context_lower) ==
    LET hits == {k \in 1..Len(context_tags) :
                    \E j \in 1..Len(context_tags[k][2]) :
                        Contains(context_lower, context_tags[k][2][j])}
    IN  IF hits = {} THEN 0 ELSE CHOOSE k \in hits : \A h \in hits : k <= h

GenericTags == {"integer", "decimal", "quantity"}

ExtractedValue(value, numeric_value, tag, context, confidence) ==
    [value |-> value, numeric_value |-> numeric_value, tag |-> tag,
     context |-> context, confidence |-> confidence]

\* the inner loop with seen_values keyed by the matched text alone
MatchStepKeyedByValue(t, default_tag, m, st) ==
    LET value_str == SubSeq(t, m[1], m[2] - 1)
        value_key == <<value_str>>
        context == Context(t, m[1], m[2])
        hit == FirstHit(LowerAll(context))
        override == hit # 0 /\ default_tag \in GenericTags
        final_tag == IF override THEN context_tags[hit][1] ELSE default_tag
        confidence == IF override /\ st.confidence = "medium" THEN "high"
                      ELSE st.confidence
    IN  IF value_key \in st.seen_values THEN st
        ELSE [seen_values |-> st.seen_values \cup {value_key},
              extracted |-> Append(st.extracted,
                               ExtractedValue(value_str, Numeric(value_str), final_tag,
                                              context, confidence)),
              confidence |-> confidence]
\* the inner loop with the override of lines 195-197 applied to every match
MatchStepOverridesAll(t, default_tag, m, st) ==
    LET value_str == SubSeq(t, m[1], m[2] - 1)
        value_key == <<m[1], value_str>>
        context == Context(t, m[1], m[2])
        hit == FirstHit(LowerAll(context))
        override == hit # 0
        final_tag == IF override THEN context_tags[hit][1] ELSE default_tag
        confidence == IF override /\ st.confidence = "medium" THEN "high"
                      ELSE st.confidence
    IN  IF value_key \in st.seen_values THEN st
        ELSE [seen_values |-> st.seen_values \cup {value_key},
              extracted |-> Append(st.extracted,
                               ExtractedValue(value_str, Numeric(value_str), final_tag,
                                              context, confidence)),
              confidence |-> confidence]
\* the inner loop with each record put in front of the list
MatchStepPrepends(t, default_tag, m, st) ==
    LET value_str == SubSeq(t, m[1], m[2] - 1)
        value_key == <<m[1], value_str>>
        context == Context(t, m[1], m[2])
        hit == FirstHit(LowerAll(context))
        override == hit # 0 /\ default_tag \in GenericTags
        final_tag == IF override THEN context_tags[hit][1] ELSE default_tag
        confidence == IF override /\ st.confidence = "medium" THEN "high"
                      ELSE st.confidence
    IN  IF value_key \in st.seen_values THEN st
        ELSE [seen_values |-> st.seen_values \cup {value_key},
              extracted |-> <<ExtractedValue(value_str, Numeric(value_str), final_tag,
                                             context, confidence)>> \o st.extracted,
              confidence |-> confidence]

\* One match of the inner loop. st holds seen_values, extracted and the loop
\* variable confidence, which the body assigns and the next match reads.
MatchStep(t, default_tag, m, st) ==
    LET value_str == SubSeq(t, m[1], m[2] - 1)
        value_key == <<m[1], value_str>>
        context == Context(t, m[1], m[2])
        hit == FirstHit(LowerAll(context))
        override == hit # 0 /\ default_tag \in GenericTags
        final_tag == IF override THEN context_tags[hit][1] ELSE default_tag
        confidence == IF override /\ st.confidence = "medium" THEN "high"
                      ELSE st.confidence
    IN  IF value_key \in st.seen_values THEN st
        ELSE [seen_values |-> st.seen_values \cup {value_key},
              extracted |-> Append(st.extracted,
                               ExtractedValue(value_str, Numeric(value_str), final_tag,
                                              context, confidence)),
              confidence |-> confidence]

RECURSIVE MatchLoop(_, _, _, _)
MatchLoop(t, default_tag, ms, st) ==
    IF ms = <<>> THEN st
    ELSE MatchLoop(t, default_tag, Tail(ms), MatchStep(t, default_tag, Head(ms), st))

\* for pattern, default_tag, confidence in patterns: for match in re.finditer(...)
RECURSIVE PatternLoop(_, _, _, _)
PatternLoop(t, k, seen_values, found) ==
    IF k > Len(patterns) THEN found
    ELSE LET st == MatchLoop(t, patterns[k][2], FindIter(patterns[k][1], t, 1),
                             [seen_values |-> seen_values, extracted |-> found,
                              confidence |-> patterns[k][3]])
         IN  PatternLoop(t, k + 1, st.seen_values, st.extracted)

\* the filter of lines 210-215 without its test of the tag
IsNoiseAnyTag(ev) ==
    ev.confidence = "low" /\ LessThanTen(ev.numeric_value)

\* the filter of lines 210-215
IsNoise(ev) ==
    ev.tag = "integer" /\ ev.confidence = "low" /\ LessThanTen(ev.numeric_value)

\* filtered = [] and the loop of lines 211-215
NoiseFilter(found) ==
    SelectSeq(found, LAMBDA ev : ~IsNoise(ev))

\* PDFProcessor._extract_numeric_values
extract_numeric_values(t) ==
    NoiseFilter(PatternLoop(t, 1, {}, <<>>))

\* the document texts doc.export_to_markdown() is drawn from
TextEmpty ==
    <<>>

TextPages ==
    <<"s", "e", "e", " ", "p", "a", "g", "e", " ", "3", " ", "a", "n", "d", " ", "7">>

TextTotalDue ==
    <<"T", "o", "t", "a", "l", " ", "d", "u", "e", ":", " ", "$", "4", "2", ".", "0", "0", " ", "b", "y", " ", "2", "0", "2", "4", "-", "0", "3", "-", "0", "1">>

Texts == {TextEmpty, TextTotalDue}

\* the extractor's result on each of them
Extracted == [t \in Texts |-> extract_numeric_values(t)]

(* ------------------------ the export pipeline ------------------------ *)
OptionNames == {"json", "markdown", "csv", "excel", "html", "images", "extract_values"}
ExportOptions == [OptionNames -> BOOLEAN]

\* len(list(doc.pages)), or 0 for a document without pages
PageCounts == {0, 2}

\* pictures by what exporting them does: an image is saved, or the picture is
\* skipped: it has no image, or get_image or image.save raises and the handler
\* of line 401 passes on to the next picture
PictureKinds == {"image", "skipped"}

Message(head, error, qualifier, n) ==
    [head |-> head, name |-> FileName, error |-> error, qualifier |-> qualifier, n |-> n]

ProcessingResult(success, message, files, tc, pgc, pic, evc) ==
    [success |-> success, message |-> message, output_files |-> files,
     table_count |-> tc, page_count |-> pgc, picture_count |-> pic,
     extracted_values_count |-> evc]

Init ==
    /\ options \in ExportOptions
    /\ has_callback \in BOOLEAN
    /\ pc = "mkdir"
    /\ doc = "unset"
    /\ output_files = <<>>
    /\ tables = <<>>
    /\ table_dataframes = <<>>
    /\ table_count = 0
    /\ fallback_ran = FALSE
    /\ text_content = <<>>
    /\ extracted_values = <<>>
    /\ extracted_values_count = 0
    /\ pictures = <<>>
    /\ picture_count = 0
    /\ progress = <<>>
    /\ disk = {}
    /\ workbook = <<>>
    /\ exc = "none"
    /\ result = <<>>
    /\ kv_data = FALSE
    /\ form_data = FALSE
    /\ converter = "none"
    /\ run = 1
    /\ first = <<>>
    /\ MainWindowInit
    /\ ExtractorInit

\* mutant: the failure message leaves out str(e)
ExceptResultNoText(e) ==
    ProcessingResult(FALSE, Message("Error processing", "", "", 0), <<>>, 0, 0, 0, 0)

\* except Exception as e: return ProcessingResult(success=False, ...)
ExceptResult(e) ==
    ProcessingResult(FALSE, Message("Error processing", e, "", 0), <<>>, 0, 0, 0, 0)

\* an exception raised inside the try block by step e
Except(e) ==
    /\ exc' = e
    /\ result' = <<ExceptResult(e)>>
    /\ pc' = "done"

\* output_folder.mkdir(parents=True, exist_ok=True), before the try block
Mkdir ==
    /\ pc = "mkdir"
    /\ \/ pc' = "cb10" /\ exc' = exc
       \/ pc' = "propagated" /\ exc' = "mkdir"
    /\ UNCHANGED <<outside, converter, kv_data, form_data,
                   options, has_callback, doc, output_files, tables, table_dataframes,
                   table_count, fallback_ran, text_content, extracted_values, extracted_values_count,
                   pictures, picture_count, progress, disk, workbook, result>>

\* mutant: the 60 and 65 milestones are exchanged
PercentSwapped(p) ==
    CASE p = "cb10" -> 10 [] p = "cb50" -> 50 [] p = "cb60" -> 65 [] p = "cb65" -> 60
      [] p = "cb70" -> 70 [] p = "cb80" -> 80 [] p = "cb90" -> 90 [] p = "cb100" -> 100

\* the progress milestones: position -> percent, and the step that follows
Percent(p) ==
    CASE p = "cb10" -> 10 [] p = "cb50" -> 50 [] p = "cb60" -> 60 [] p = "cb65" -> 65
      [] p = "cb70" -> 70 [] p = "cb80" -> 80 [] p = "cb90" -> 90 [] p = "cb100" -> 100

AfterProgress(p) ==
    CASE p = "cb10" -> "convert" [] p = "cb50" -> "json" [] p = "cb60" -> "markdown"
      [] p = "cb65" -> "tables" [] p = "cb70" -> "extract" [] p = "cb80" -> "pictures"
      [] p = "cb90" -> "key_values" [] p = "cb100" -> "finish"

ProgressPoints == {"cb10", "cb50", "cb60", "cb65", "cb70", "cb80", "cb90", "cb100"}

\* if progress_callback: progress_callback(message, percent)
Progress ==
    /\ pc \in ProgressPoints
    /\ IF has_callback
       THEN /\ progress' = Append(progress, Percent(pc))
            /\ \/ pc' = AfterProgress(pc) /\ UNCHANGED <<exc, result>>
               \/ Except("callback")
       ELSE /\ pc' = AfterProgress(pc)
            /\ UNCHANGED <<progress, exc, result>>
    /\ UNCHANGED <<outside, converter, kv_data, form_data,
                   options, has_callback, doc, output_files, tables, table_dataframes,
                   table_count, fallback_ran, text_content, extracted_values, extracted_values_count,
                   pictures, picture_count, disk, workbook>>

\* result = self.converter.convert(str(file_path)); doc = result.document
\* (self.converter makes the DocumentConverter when self._converter is None;
\* making it, or convert, may raise)
Convert ==
    /\ pc = "convert"
    /\ \/ doc' = "converted" /\ converter' = "created" /\ pc' = "cb50"
          /\ UNCHANGED <<exc, result>>
       \/ doc' = doc /\ converter' \in {converter, "created"} /\ Except("convert")
    /\ UNCHANGED <<outside, kv_data, form_data,
                   options, has_callback, output_files, tables, table_dataframes,
                   table_count, fallback_ran, text_content, extracted_values, extracted_values_count,
                   pictures, picture_count, progress, disk, workbook>>

\* mutant: the path is inserted at the front of the list
Prepended(files, path) == <<path>> \o files

\* output_files.append(str(path))
Appended(files, path) == Append(files, path)

\* One single-file export stage: when enabled, the file is written and its
\* path appended, or the write raises (the file may already have been opened
\* for writing, so it may exist).
WriteStage(here, wanted, path, next) ==
    /\ pc = here
    /\ IF wanted
       THEN \/ /\ disk' = disk \cup {path}
               /\ output_files' = Appended(output_files, path)
               /\ pc' = next
               /\ UNCHANGED <<exc, result>>
            \/ /\ \E created \in BOOLEAN :
                      disk' = IF created THEN disk \cup {path} ELSE disk
               /\ output_files' = output_files
               /\ Except(here)
       ELSE /\ pc' = next
            /\ UNCHANGED <<disk, output_files, exc, result>>

ExportJson ==
    /\ WriteStage("json", options["json"], json_path, "cb60")
    /\ UNCHANGED <<outside, converter, kv_data, form_data,
                   options, has_callback, doc, tables, table_dataframes,
                   table_count, fallback_ran, text_content, extracted_values, extracted_values_count,
                   pictures, picture_count, progress, workbook>>

ExportMarkdown ==
    /\ WriteStage("markdown", options["markdown"], md_path, "html")
    /\ UNCHANGED <<outside, converter, kv_data, form_data,
                   options, has_callback, doc, tables, table_dataframes,
                   table_count, fallback_ran, text_content, extracted_values, extracted_values_count,
                   pictures, picture_count, progress, workbook>>

ExportHtml ==
    /\ WriteStage("html", options["html"], html_path, "cb65")
    /\ UNCHANGED <<outside, converter, kv_data, form_data,
                   options, has_callback, doc, tables, table_dataframes,
                   table_count, fallback_ran, text_content, extracted_values, extracted_values_count,
                   pictures, picture_count, progress, workbook>>

\* mutant: the first table that fails ends the loop
RECURSIVE TableLoopAbort(_, _, _, _)
TableLoopAbort(tbls, i, dfs, count) ==
    IF i > Len(tbls) THEN [table_dataframes |-> dfs, table_count |-> count]
    ELSE IF tbls[i] THEN TableLoopAbort(tbls, i + 1, Append(dfs, i), count + 1)
    ELSE [table_dataframes |-> dfs, table_count |-> count]

\* for i, table in enumerate(tables): try: df = table.export_to_dataframe(...);
\* table_dataframes.append((f"Table_{i+1}", df)); table_count += 1
\* except Exception: (the table is skipped)
RECURSIVE TableLoop(_, _, _, _)
TableLoop(tbls, i, dfs, count) ==
    IF i > Len(tbls) THEN [table_dataframes |-> dfs, table_count |-> count]
    ELSE IF tbls[i] THEN TableLoop(tbls, i + 1, Append(dfs, i), count + 1)
    ELSE TableLoop(tbls, i + 1, dfs, count)

CollectTables ==
    /\ pc = "tables"
    /\ \E tbls \in SeqsUpTo(BOOLEAN, MaxTables) :
          LET r == TableLoop(tbls, 1, <<>>, 0)
          IN  /\ tables' = tbls
              /\ table_dataframes' = r.table_dataframes
              /\ table_count' = r.table_count
    /\ pc' = "excel"
    /\ UNCHANGED <<outside, converter, kv_data, form_data,
                   options, has_callback, doc, output_files, fallback_ran,
                   text_content, extracted_values, extracted_values_count, pictures, picture_count,
                   progress, disk, workbook, exc, result>>

\* if options.excel and table_dataframes: one workbook, one sheet per table
ExportExcel ==
    /\ pc = "excel"
    /\ IF options["excel"] /\ table_dataframes # <<>>
       THEN \/ /\ workbook' = table_dataframes
               /\ disk' = disk \cup {xlsx_path}
               /\ output_files' = Appended(output_files, xlsx_path)
               /\ pc' = "csv"
               /\ UNCHANGED <<exc, result>>
            \/ /\ \E created \in BOOLEAN :
                      disk' = IF created THEN disk \cup {xlsx_path} ELSE disk
               /\ UNCHANGED <<workbook, output_files>>
               /\ Except("excel")
       ELSE /\ pc' = "csv"
            /\ UNCHANGED <<workbook, disk, output_files, exc, result>>
    /\ UNCHANGED <<outside, converter, kv_data, form_data,
                   options, has_callback, doc, tables, table_dataframes, table_count,
                   fallback_ran, text_content, extracted_values, extracted_values_count, pictures,
                   picture_count, progress>>

\* the paths of the first k collected tables' CSV files
RECURSIVE CsvPaths(_, _)
CsvPaths(dfs, k) ==
    IF k = 0 THEN <<>> ELSE Append(CsvPaths(dfs, k - 1), csv_path(dfs[k]))

RECURSIVE AppendedAll(_, _)
AppendedAll(files, paths) ==
    IF paths = <<>> THEN files
    ELSE AppendedAll(Appended(files, Head(paths)), Tail(paths))

\* if options.csv and table_dataframes: one CSV per table; a failing to_csv
\* leaves the CSVs written before it
ExportCsv ==
    /\ pc = "csv"
    /\ IF options["csv"] /\ table_dataframes # <<>>
       THEN \E k \in 0..Len(table_dataframes) :
               LET written == CsvPaths(table_dataframes, k)
               IN  /\ output_files' = AppendedAll(output_files, written)
                   /\ IF k = Len(table_dataframes)
                      THEN /\ disk' = disk \cup Range(written)
                           /\ pc' = "values"
                           /\ UNCHANGED <<exc, result>>
                      ELSE /\ \E created \in BOOLEAN :
                                 disk' = disk \cup Range(written) \cup
                                    (IF created THEN {csv_path(table_dataframes[k + 1])}
                                     ELSE {})
                           /\ Except("csv")
       ELSE /\ pc' = "values"
            /\ UNCHANGED <<disk, output_files, exc, result>>
    /\ UNCHANGED <<outside, converter, kv_data, form_data,
                   options, has_callback, doc, tables, table_dataframes, table_count,
                   fallback_ran, text_content, extracted_values, extracted_values_count, pictures,
                   picture_count, progress, workbook>>

\* mutant: the guard does not look at table_count
FallbackGuardIgnoresTables(tc, opts) == opts["extract_values"]

\* if table_count == 0 and options.extract_values:
FallbackGuard(tc, opts) == tc = 0 /\ opts["extract_values"]

ValuesCheck ==
    /\ pc = "values"
    /\ extracted_values_count' = 0
    /\ IF FallbackGuard(table_count, options)
       THEN fallback_ran' = TRUE /\ pc' = "cb70"
       ELSE fallback_ran' = fallback_ran /\ pc' = "cb80"
    /\ UNCHANGED <<outside, converter, kv_data, form_data,
                   options, has_callback, doc, output_files, tables, table_dataframes,
                   table_count, text_content, extracted_values, pictures, picture_count, progress,
                   disk, workbook, exc, result>>

\* text_content = doc.export_to_markdown()
\* extracted_values = self._extract_numeric_values(text_content)
\* if extracted_values: extracted_values_count = len(extracted_values)
Extract ==
    /\ pc = "extract"
    /\ \/ \E markdown \in Texts :
             LET evs == Extracted[markdown]
             IN  /\ text_content' = markdown
                 /\ extracted_values' = evs
                 /\ IF evs # <<>>
                    THEN extracted_values_count' = Len(evs) /\ pc' = "values_export"
                    ELSE extracted_values_count' = extracted_values_count /\ pc' = "cb80"
                 /\ UNCHANGED <<exc, result>>
       \/ /\ UNCHANGED <<text_content, extracted_values, extracted_values_count>>
          /\ Except("extract")
    /\ UNCHANGED <<outside, converter, kv_data, form_data,
                   options, has_callback, doc, output_files, tables, table_dataframes,
                   table_count, fallback_ran, pictures, picture_count, progress, disk,
                   workbook>>

\* mutant: the CSV is written before the JSON
ValuesArtifactsSwapped == <<values_csv_path, values_json_path, values_xlsx_path>>

\* the three value exports, in the order the code writes them
ValuesArtifacts == <<values_json_path, values_csv_path, values_xlsx_path>>

ExportValues ==
    /\ pc = "values_export"
    /\ \E k \in 0..Len(ValuesArtifacts) :
          LET written == SubSeq(ValuesArtifacts, 1, k)
          IN  /\ output_files' = AppendedAll(output_files, written)
              /\ IF k = Len(ValuesArtifacts)
                 THEN /\ disk' = disk \cup Range(written)
                      /\ pc' = "cb80"
                      /\ UNCHANGED <<exc, result>>
                 ELSE /\ \E created \in BOOLEAN :
                            disk' = disk \cup Range(written) \cup
                               (IF created THEN {ValuesArtifacts[k + 1]} ELSE {})
                      /\ Except("values_export")
    /\ UNCHANGED <<outside, converter, kv_data, form_data,
                   options, has_callback, doc, tables, table_dataframes, table_count,
                   fallback_ran, text_content, extracted_values, extracted_values_count, pictures,
                   picture_count, progress, workbook>>

\* mutant: the first picture whose export raises ends the loop
RECURSIVE PictureLoopAbort(_, _, _, _, _)
PictureLoopAbort(pics, i, files, count, dsk) ==
    IF i > Len(pics) THEN [output_files |-> files, picture_count |-> count, disk |-> dsk]
    ELSE IF pics[i] = "image"
         THEN PictureLoopAbort(pics, i + 1, Appended(files, img_path(i)), count + 1,
                               dsk \cup {images_folder, img_path(i)})
    ELSE [output_files |-> files, picture_count |-> count, disk |-> dsk]

\* for i, picture in enumerate(pictures): try: image = picture.get_image(doc);
\* if image is not None: images_folder.mkdir(...); image.save(img_path);
\* output_files.append(img_path); picture_count += 1
\* except Exception: (the picture is skipped)
RECURSIVE PictureLoop(_, _, _, _, _)
PictureLoop(pics, i, files, count, dsk) ==
    IF i > Len(pics) THEN [output_files |-> files, picture_count |-> count, disk |-> dsk]
    ELSE IF pics[i] = "image"
         THEN PictureLoop(pics, i + 1, Appended(files, img_path(i)), count + 1,
                          dsk \cup {images_folder, img_path(i)})
    ELSE PictureLoop(pics, i + 1, files, count, dsk)

\* picture_count = 0; if options.images: ...
\* images_folder.mkdir (line 396) runs for every picture with an image, before
\* image.save: mkdir_ran tells whether a skipped picture got that far
ExportPictures ==
    /\ pc = "pictures"
    /\ IF options["images"]
       THEN \E pics \in SeqsUpTo(PictureKinds, MaxPictures), mkdir_ran \in BOOLEAN :
               LET r == PictureLoop(pics, 1, output_files, 0, disk)
               IN  /\ mkdir_ran => \E i \in 1..Len(pics) : pics[i] = "skipped"
                   /\ pictures' = pics
                   /\ output_files' = r.output_files
                   /\ picture_count' = r.picture_count
                   /\ disk' = r.disk \cup (IF mkdir_ran THEN {images_folder} ELSE {})
       ELSE /\ picture_count' = 0
            /\ UNCHANGED <<pictures, output_files, disk>>
    /\ pc' = "cb90"
    /\ UNCHANGED <<outside, converter, kv_data, form_data,
                   options, has_callback, doc, tables, table_dataframes, table_count,
                   fallback_ran, text_content, extracted_values, extracted_values_count, progress,
                   workbook, exc, result>>

\* if hasattr(doc, 'key_value_items') and doc.key_value_items: ... if kv_data:
ExportKeyValues ==
    /\ \E kv \in BOOLEAN : kv_data' = kv /\ WriteStage("key_values", kv, kv_path, "form")
    /\ UNCHANGED <<outside, converter, form_data,
                   options, has_callback, doc, tables, table_dataframes,
                   table_count, fallback_ran, text_content, extracted_values, extracted_values_count,
                   pictures, picture_count, progress, workbook>>

\* if hasattr(doc, 'form_items') and doc.form_items: ... if form_data:
ExportForm ==
    /\ \E form \in BOOLEAN : form_data' = form /\ WriteStage("form", form, form_path, "cb100")
    /\ UNCHANGED <<outside, converter, kv_data,
                   options, has_callback, doc, tables, table_dataframes,
                   table_count, fallback_ran, text_content, extracted_values, extracted_values_count,
                   pictures, picture_count, progress, workbook>>

\* mutant: the elif of line 461 is an else
FinalMessageElse(tc, evc) ==
    IF tc = 0 /\ evc > 0
    THEN Message("Successfully processed", "", "no tables found, extracted N numeric values", evc)
    ELSE Message("Successfully processed", "", "no tables or numeric values found", 0)

\* message = f"Successfully processed {file_path.name}" plus the qualifier
FinalMessage(tc, evc) ==
    IF tc = 0 /\ evc > 0
    THEN Message("Successfully processed", "", "no tables found, extracted N numeric values", evc)
    ELSE IF tc = 0
    THEN Message("Successfully processed", "", "no tables or numeric values found", 0)
    ELSE Message("Successfully processed", "", "", 0)

\* page_count = len(list(doc.pages)); build the message; return the result
Finish ==
    /\ pc = "finish"
    /\ \/ \E page_count \in PageCounts :
             /\ result' = <<ProcessingResult(TRUE,
                               FinalMessage(table_count, extracted_values_count),
                               output_files, table_count, page_count, picture_count,
                               extracted_values_count)>>
             /\ pc' = "done"
             /\ exc' = exc
       \/ Except("pages")
    /\ UNCHANGED <<outside, converter, kv_data, form_data,
                   options, has_callback, doc, output_files, tables, table_dataframes,
                   table_count, fallback_ran, text_content, extracted_values, extracted_values_count,
                   pictures, picture_count, progress, disk, workbook>>

Next ==
    \/ Mkdir
    \/ Progress
    \/ Convert
    \/ ExportJson
    \/ ExportMarkdown
    \/ ExportHtml
    \/ CollectTables
    \/ ExportExcel
    \/ ExportCsv
    \/ ValuesCheck
    \/ Extract
    \/ ExportValues
    \/ ExportPictures
    \/ ExportKeyValues
    \/ ExportForm
    \/ Finish

Spec == Init /\ [][Next]_vars

(* ----------------------- process invoked again ----------------------- *)
\* every export format selected
AllFormats == [n \in OptionNames |-> TRUE]

InitAgain == Init /\ options = AllFormats

\* mutant: the artifact list is kept by the processor between invocations
StaleLocals == [output_files |-> output_files]

\* output_files = [] at the entry of process (line 257)
FreshLocals == [output_files |-> <<>>]

\* The caller invokes process once more on the same PDFProcessor, with the
\* same options and callback: every local starts afresh, self._converter is
\* kept.
Invoke ==
    /\ pc = "done"
    /\ run = 1
    /\ run' = 2
    /\ pc' = "mkdir"
    /\ doc' = "unset"
    /\ output_files' = FreshLocals.output_files
    /\ tables' = <<>>
    /\ table_dataframes' = <<>>
    /\ table_count' = 0
    /\ fallback_ran' = FALSE
    /\ text_content' = <<>>
    /\ extracted_values' = <<>>
    /\ extracted_values_count' = 0
    /\ pictures' = <<>>
    /\ picture_count' = 0
    /\ kv_data' = FALSE
    /\ form_data' = FALSE
    /\ progress' = <<>>
    /\ disk' = {}
    /\ workbook' = <<>>
    /\ exc' = "none"
    /\ result' = <<>>
    /\ UNCHANGED <<options, has_callback, converter, gui_vars, extractor_vars>>

\* the same document into the same output folder
Again ==
    /\ Invoke
    /\ first' = [result |-> result, exc |-> exc, progress |-> progress, disk |-> disk,
                 output_files |-> output_files, workbook |-> workbook, tables |-> tables,
                 pictures |-> pictures, text_content |-> text_content,
                 kv_data |-> kv_data, form_data |-> form_data]

\* another document
NextDocument ==
    /\ Invoke
    /\ first' = <<>>

\* the position at which the first invocation raised
RaisedAt(f) ==
    IF f.exc = "callback"
    THEN CHOOSE p \in ProgressPoints : Percent(p) = f.progress[Len(f.progress)]
    ELSE IF f.exc = "pages" THEN "finish" ELSE f.exc

\* A deterministic collaborator: on the same document every call returns
\* what it returned, or raises where it raised, in the first invocation (a
\* skipped picture is skipped at the same place: with the folder made or not).
SameDocument ==
    first # <<>> =>
        /\ pc = "tables" => tables' = first.tables
        /\ pc = "pictures" =>
              /\ pictures' = first.pictures
              /\ (images_folder \in disk') = (images_folder \in first.disk)
        /\ (pc = "extract" /\ exc' = "none") => text_content' = first.text_content
        /\ pc = "key_values" => kv_data' = first.kv_data
        /\ pc = "form" => form_data' = first.form_data
        /\ (pc = "finish" /\ exc' = "none") =>
              result'[1].page_count = first.result[1].page_count
        /\ exc' # "none" <=> (first.exc # "none" /\ RaisedAt(first) = pc)

NextAgain ==
    \/ Next /\ SameDocument
    \/ Again
    \/ NextDocument

SpecAgain == InitAgain /\ [][NextAgain]_vars

(* ------------------------ the batch driver (GUI) --------------------- *)
\* the PDF files the user can add, and the longest list one drop or one
\* file dialog adds
MaxFiles == 3
MaxAdded == 1
PdfFiles == 1..MaxFiles

\* for file_path in files: if file_path not in self.pending_files: append
RECURSIVE AddedFiles(_, _)
AddedFiles(queue, files) ==
    IF files = <<>> THEN queue
    ELSE AddedFiles(IF Head(files) \in Range(queue) THEN queue
                    ELSE Append(queue, Head(files)),
                    Tail(files))

\* pdf_files.sort(key=lambda p: p.name.lower()): the files of a folder by name
RECURSIVE Sorted(_)
Sorted(S) ==
    IF S = {} THEN <<>>
    ELSE LET least == CHOOSE x \in S : \A y \in S : x <= y
         IN  <<least>> \o Sorted(S \ {least})

\* the entries of a list that are not selected
RECURSIVE Unselected(_, _, _)
Unselected(list, i, selected) ==
    IF i > Len(list) THEN <<>>
    ELSE (IF i \in selected THEN <<>> ELSE <<list[i]>>) \o Unselected(list, i + 1, selected)

RemovedAt(list, i) == SubSeq(list, 1, i - 1) \o SubSeq(list, i + 1, Len(list))

\* list.remove(x) for each x of gone that is in the list
RECURSIVE RemoveAll(_, _)
RemoveAll(list, gone) ==
    IF gone = <<>> THEN list
    ELSE LET x == Head(gone)
             at == IF x \in Range(list) THEN CHOOSE i \in 1..Len(list) :
                         list[i] = x /\ \A j \in 1..(i - 1) : list[j] # x
                   ELSE 0
         IN  RemoveAll(IF at = 0 THEN list ELSE RemovedAt(list, at), Tail(gone))

\* _update_process_button: has_files and not_processing
update_process_button(queue, worker) == Len(queue) > 0 /\ worker = <<>>

\* mutant: Process Files stays enabled while a batch is processed
set_processing_state_button_on(processing) ==
    [w \in Widgets |-> w = "btn_process" \/ ~processing]

\* _set_processing_state: every control gets setEnabled(not processing)
set_processing_state(processing) == [w \in Widgets |-> ~processing]

ProcessingWorker(file_path) == [file_path |-> file_path, state |-> "processing"]

\* mutant: the entry of a file that failed stays in the queue
PoppedOnSuccess(list, success) == IF list # <<>> /\ success THEN Tail(list) ELSE list

\* if self.pending_files: self.pending_files.pop(0), in both branches of
\* _on_file_finished
Popped(list, success) == IF list # <<>> THEN Tail(list) ELSE list

\* _add_files, from the drop zone or the file dialog
AddFiles ==
    /\ enabled["drop_zone"] \/ enabled["btn_add_files"]
    /\ \E files \in SeqsUpTo(PdfFiles, MaxAdded) \ {<<>>} :
          LET queue == AddedFiles(pending_files, files)
          IN  /\ pending_files' = queue
              /\ file_list' = file_list \o SubSeq(queue, Len(pending_files) + 1, Len(queue))
    /\ enabled' = [enabled EXCEPT
                      !["btn_process"] = update_process_button(pending_files', current_worker)]
    /\ UNCHANGED <<current_worker, threads, batch, handed, removed>>
    /\ UNCHANGED <<process_vars, converter, run, first, extractor_vars>>

\* _add_folder, from the drop zone or the folder dialog: the PDF files found
\* are added in name order; none found shows a message and changes nothing
AddFolder ==
    /\ enabled["drop_zone"] \/ enabled["btn_add_folder"]
    /\ \E pdf_files \in SUBSET PdfFiles :
          IF pdf_files # {}
          THEN /\ LET queue == AddedFiles(pending_files, Sorted(pdf_files))
                  IN  /\ pending_files' = queue
                      /\ file_list' = file_list \o
                            SubSeq(queue, Len(pending_files) + 1, Len(queue))
               /\ enabled' = [enabled EXCEPT !["btn_process"] =
                                 update_process_button(pending_files', current_worker)]
          ELSE UNCHANGED <<pending_files, file_list, enabled>>
    /\ UNCHANGED <<current_worker, threads, batch, handed, removed>>
    /\ UNCHANGED <<process_vars, converter, run, first, extractor_vars>>

\* _clear_files
ClearFiles ==
    /\ enabled["btn_clear"]
    /\ pending_files' = <<>>
    /\ file_list' = <<>>
    /\ enabled' = [enabled EXCEPT
                      !["btn_process"] = update_process_button(pending_files', current_worker)]
    /\ UNCHANGED <<current_worker, threads, batch, handed, removed>>
    /\ UNCHANGED <<process_vars, converter, run, first, extractor_vars>>

\* _remove_selected, with any selection of the items of the list
RemoveSelected ==
    /\ enabled["btn_remove"]
    /\ \E selected \in SUBSET (1..Len(file_list)) :
          /\ pending_files' = RemoveAll(pending_files,
                                        SelectSeq([i \in 1..Len(file_list) |->
                                                     IF i \in selected THEN file_list[i]
                                                     ELSE 0],
                                                  LAMBDA x : x # 0))
          /\ file_list' = Unselected(file_list, 1, selected)
    /\ enabled' = [enabled EXCEPT
                      !["btn_process"] = update_process_button(pending_files', current_worker)]
    /\ UNCHANGED <<current_worker, threads, batch, handed, removed>>
    /\ UNCHANGED <<process_vars, converter, run, first, extractor_vars>>

\* _process_next_file on the queue it finds: with no file left the controls
\* are enabled again; otherwise a worker for the first file is made and
\* started. live are the threads that still exist.
process_next_file(queue, live, worker) ==
    IF queue = <<>>
    THEN /\ enabled' = set_processing_state(FALSE)
         /\ current_worker' = worker
         /\ threads' = live
         /\ handed' = handed
    ELSE /\ current_worker' = <<queue[1]>>
         /\ threads' = Append(live, ProcessingWorker(queue[1]))
         /\ handed' = Append(handed, queue[1])
         /\ enabled' = enabled

\* a click on Process Files: _start_processing
StartProcessing ==
    /\ enabled["btn_process"]
    /\ IF pending_files = <<>>
       THEN UNCHANGED <<current_worker, threads, enabled, batch, handed, removed>>
       ELSE /\ batch' = pending_files
            /\ removed' = <<>>
            /\ current_worker' = <<pending_files[1]>>
            /\ threads' = Append(threads, ProcessingWorker(pending_files[1]))
            /\ handed' = <<pending_files[1]>>
            /\ enabled' = set_processing_state(TRUE)
    /\ UNCHANGED <<pending_files, file_list>>
    /\ UNCHANGED <<process_vars, converter, run, first, extractor_vars>>

\* ProcessingWorker.run: process returns a result and finished is emitted,
\* which queues the call of _on_file_finished in the main thread
WorkerRun ==
    /\ \E i \in 1..Len(threads) :
          /\ threads[i].state = "processing"
          /\ \E success \in BOOLEAN :
                threads' = [threads EXCEPT ![i] = [file_path |-> threads[i].file_path,
                                                   state |-> "emitted",
                                                   success |-> success]]
    /\ UNCHANGED <<pending_files, file_list, current_worker, enabled, batch, handed, removed>>
    /\ UNCHANGED <<process_vars, converter, run, first, extractor_vars>>

\* ProcessingWorker.run when process raises (the mkdir of line 255 is
\* outside its try block): the thread ends and finished is never emitted
WorkerRaises ==
    /\ \E i \in 1..Len(threads) :
          /\ threads[i].state = "processing"
          /\ threads' = [threads EXCEPT ![i] = [file_path |-> threads[i].file_path,
                                                state |-> "died"]]
    /\ UNCHANGED <<pending_files, file_list, current_worker, enabled, batch, handed, removed>>
    /\ UNCHANGED <<process_vars, converter, run, first, extractor_vars>>

\* _on_file_finished(result), for the emitted signal of a worker
OnFileFinished ==
    /\ \E i \in 1..Len(threads) :
          /\ threads[i].state = "emitted"
          /\ LET success == threads[i].success
                 queue == Popped(pending_files, success)
             IN  /\ pending_files' = queue
                 /\ file_list' = Popped(file_list, success)
                 /\ removed' = IF queue # pending_files
                                THEN Append(removed, [file_path |-> pending_files[1],
                                                      by |-> threads[i].file_path,
                                                      success |-> success])
                                ELSE removed
                 /\ process_next_file(queue, RemovedAt(threads, i), <<>>)
    /\ UNCHANGED batch
    /\ UNCHANGED <<process_vars, converter, run, first, extractor_vars>>

InitGui == Init /\ options = AllFormats /\ has_callback

NextGui ==
    \/ AddFiles
    \/ AddFolder
    \/ ClearFiles
    \/ RemoveSelected
    \/ StartProcessing
    \/ WorkerRun
    \/ WorkerRaises
    \/ OnFileFinished

SpecGui == InitGui /\ [][NextGui]_vars

\* a started thread runs, and the event loop of the main thread delivers a
\* queued signal
SpecGuiLive ==
    /\ SpecGui
    /\ WF_vars(WorkerRun \/ WorkerRaises)
    /\ WF_vars(OnFileFinished)

(* ----------------- the value extractor called on texts --------------- *)
\* what the texts handed to the extractor are made of
Words == {
    <<"T", "o", "t", "a", "l", ":", " ">>,
    <<"1", "5", "0", "0">>,
    <<"s", "e", "e", " ", "p", "a", "g", "e", " ", "3", " ", "a", "n", "d", " ", "7">>,
    <<"$", "4", ".", "5", "0">>,
    <<"2", "0", "2", "4">>}

\* the texts of up to n words
RECURSIVE TextsOf(_)
TextsOf(n) ==
    IF n = 0 THEN {<<>>}
    ELSE LET shorter == TextsOf(n - 1)
         IN  shorter \cup {s \o w : s \in shorter, w \in Words}

\* the matches of all patterns in the order the two loops of lines 157-158
\* visit them, as <<pattern, start, end>>
RECURSIVE Scanned(_, _)
Scanned(t, k) ==
    IF k > Len(patterns) THEN <<>>
    ELSE LET ms == FindIter(patterns[k][1], t, 1)
         IN  [i \in 1..Len(ms) |-> <<k, ms[i][1], ms[i][2]>>] \o Scanned(t, k + 1)

\* the extractor is a method without state of its own: it is called twice at
\* most on a text
MaxCalls == 2

InitExtractor ==
    /\ Init
    /\ options = AllFormats
    /\ has_callback

\* text_content = doc.export_to_markdown(): the text of the document, word
\* after word, before the extractor is called on it
ExportToMarkdown ==
    /\ calls = 0
    /\ text \in TextsOf(MaxWords - 1)
    /\ \E w \in Words : text' = text \o w
    /\ UNCHANGED <<calls, extracted, filtered, previous, visited>>
    /\ UNCHANGED <<process_vars, converter, run, first, gui_vars>>

\* PDFProcessor._extract_numeric_values(text): extracted = [] and
\* seen_values = set() are made by the call
ExtractNumericValues ==
    /\ calls < MaxCalls
    /\ extracted' = PatternLoop(text, 1, {}, <<>>)
    /\ filtered' = NoiseFilter(extracted')
    /\ visited' = Scanned(text, 1)
    /\ previous' = IF calls = 0 THEN <<>> ELSE <<filtered>>
    /\ calls' = calls + 1
    /\ UNCHANGED <<text, process_vars, converter, run, first, gui_vars>>

NextExtractor ==
    \/ ExportToMarkdown
    \/ ExtractNumericValues

SpecExtractor == InitExtractor /\ [][NextExtractor]_vars

\* a rule of 50 characters, as a document draws between two paragraphs
Rule50 == [i \in 1..50 |-> "#"]

\* what texts of number formats are made of: a keyword, the formats of
\* currency, percentage, date and phone number, and two quantities more than
\* 50 characters apart, the first after a keyword

Formats == {
    <<"P", "a", "g", "e", " ">>,
    <<"$", "1", ",", "2", "3", "4", ".", "5", "6">>,
    <<"1", ".", "2", "3", "4", ",", "5", "6", " ", "E", "U", "R">>,
    <<"4", "5", "%">>,
    <<"2", "0", "2", "4", "-", "0", "1", "-", "1", "5">>,
    <<" ", "5", "5", "5", "-", "1", "2", "3", "-", "4", "5", "6", "7">>,
    <<"T", "o", "t", "a", "l", ":", " ", "1", ",", "2", "5", "0">> \o Rule50
        \o <<"3", ",", "5", "0", "0">>}

\* the texts of up to n words of W
RECURSIVE TextsOver(_, _)
TextsOver(W, n) ==
    IF n = 0 THEN {<<>>}
    ELSE LET shorter == TextsOver(W, n - 1)
         IN  shorter \cup {s \o w : s \in shorter, w \in W}

\* text_content = doc.export_to_markdown(), for a document of number formats
ExportFormats ==
    /\ calls = 0
    /\ text \in TextsOver(Formats, MaxFormats - 1)
    /\ \E w \in Formats : text' = text \o w
    /\ UNCHANGED <<calls, extracted, filtered, previous, visited>>
    /\ UNCHANGED <<process_vars, converter, run, first, gui_vars>>

\* extracted_values = self._extract_numeric_values(text_content): one call
\* on the text of a document
ExtractFormats ==
    /\ calls = 0
    /\ ExtractNumericValues

NextFormats ==
    \/ ExportFormats
    \/ ExtractFormats

SpecFormats == InitExtractor /\ [][NextFormats]_vars

(* ------------------------------ typing ------------------------------- *)
Returned == pc = "done"
Result == result[1]

TypeOK ==
    /\ options \in ExportOptions
    /\ has_callback \in BOOLEAN
    /\ doc \in {"unset", "converted"}
    /\ table_count \in 0..(MaxTables + 1)
    /\ picture_count \in 0..(MaxPictures + 1)
    /\ Returned <=> result # <<>>

(* ---------------------- the pipeline's properties -------------------- *)
Succeeded == Returned /\ Result.success
Failed == Returned /\ ~Result.success

\* the steps after the conversion, the progress callback apart
ExportStages == {"json", "markdown", "html", "excel", "csv", "extract", "values_export",
                 "key_values", "form", "pages"}

\* the steps that write one artifact file of the document
ArtifactStages == {"json", "markdown", "html", "excel", "csv"}
StagePath(stage) ==
    CASE stage = "json" -> json_path [] stage = "markdown" -> md_path
      [] stage = "html" -> html_path

\* the tables that convert to a grid
GoodTables == {i \in 1..Len(tables) : tables[i]}

ValuesNames == {"_extracted_values.json", "_extracted_values.csv", "_extracted_values.xlsx"}
IsValuesArtifact(path) == path.name \in ValuesNames

\* the production group of an artifact
Group(path) ==
    CASE path.name = ".json" -> 1
      [] path.name = ".md" -> 2
      [] path.name = ".html" -> 3
      [] path.name \in {"_tables.xlsx", "_table_N.csv"} -> 4
      [] path.name \in ValuesNames -> 5
      [] path.name = "_images/figure_N.png" -> 6
      [] path.name \in {"_key_values.json", "_form_data.json"} -> 7

\* C1: once the conversion has succeeded, process returns success = TRUE
\* whatever happens in a later stage.
C1_SuccessAfterConversion ==
    (Returned /\ doc = "converted" /\ exc \in ExportStages \cup {"none"}) => Result.success

\* C2: when producing one artifact fails, every other enabled artifact whose
\* own production does not fail is still produced and listed in output_files
\* (stated for the JSON, markdown and HTML files, which only their option
\* enables).
C2_SiblingArtifactsProduced ==
    (Returned /\ exc \in ArtifactStages) =>
        \A stage \in {"json", "markdown", "html"} :
            (options[stage] /\ exc # stage) =>
                StagePath(stage) \in Range(Result.output_files)

\* C3: when convert fails, process returns success = FALSE with a message
\* holding the input file name and the error text and with no output file;
\* no later stage has run: no progress after the 10% one, no artifact.
C3_ConversionFailure ==
    (Returned /\ exc = "convert") =>
        /\ ~Result.success
        /\ Result.message.head = "Error processing"
        /\ Result.message.name = FileName
        /\ Result.message.error = "convert"
        /\ Result.output_files = <<>>
        /\ IsPrefix(progress, <<10>>)
        /\ disk = {}
        /\ output_files = <<>>
        /\ doc = "unset"

C3_Witness == Returned /\ exc = "convert" /\ progress = <<10>>

\* C4: whenever process returns a failure result, this invocation has
\* produced no artifact file in the output folder (stated for the files it
\* finished writing, those of its list output_files, and for the failures of
\* its own steps, a raising progress callback apart).
C4_NoArtifactsOnFailure ==
    (Failed /\ exc # "callback") => \A f \in Range(output_files) : f \notin disk

\* C5: table_count is the number of tables that converted to a grid; a table
\* that fails is skipped, the others keep their numbers: the workbook has one
\* sheet and (with CSV enabled) the folder one CSV for each converted table
\* and none for a failed one, and a failed table raises nothing out of the
\* loop. With 3 tables of which #2 fails the count is 2
\* and the artifacts are those of #1 and #3.
C5_TablesCounted ==
    /\ table_count = Cardinality(GoodTables)
    /\ Range(table_dataframes) = GoodTables
    /\ (pc = "excel" /\ GoodTables # 1..Len(tables)) => (exc = "none" /\ result = <<>>)
    /\ Succeeded =>
          /\ Result.table_count = Cardinality(GoodTables)
          /\ \A i \in 1..Len(tables) :
                /\ csv_path(i) \in Range(Result.output_files) <=> (options["csv"] /\ tables[i])
                /\ csv_path(i) \in disk <=> (options["csv"] /\ tables[i])
          /\ Range(workbook) = (IF options["excel"] THEN GoodTables ELSE {})
          /\ xlsx_path \in Range(Result.output_files) <=>
                (options["excel"] /\ GoodTables # {})
    /\ (Succeeded /\ tables = <<TRUE, FALSE, TRUE>> /\ options["csv"] /\ options["excel"]) =>
          /\ Result.table_count = 2
          /\ workbook = <<1, 3>>
          /\ {csv_path(1), csv_path(3)} \subseteq disk
          /\ csv_path(2) \notin disk

C5_Witness ==
    Succeeded /\ tables = <<TRUE, FALSE, TRUE>> /\ options["csv"] /\ options["excel"]

\* C6: the fallback value extraction runs exactly when no table was
\* collected and options.extract_values is set; a result with tables, or with
\* the option off, has extracted_values_count = 0 and no *_extracted_values.*
\* file in output_files.
C6_FallbackOnlyWithoutTables ==
    /\ fallback_ran => (table_count = 0 /\ options["extract_values"])
    /\ (pc \in {"cb80", "pictures", "cb90", "key_values", "form", "cb100", "finish"}
           \/ Succeeded) =>
          (fallback_ran <=> (table_count = 0 /\ options["extract_values"]))
    /\ ~fallback_ran =>
          /\ extracted_values_count = 0
          /\ \A f \in Range(output_files) : ~IsValuesArtifact(f)
          /\ \A f \in disk : ~IsValuesArtifact(f)
    /\ (Returned /\ (Result.table_count > 0 \/ ~options["extract_values"])) =>
          /\ Result.extracted_values_count = 0
          /\ \A f \in Range(Result.output_files) : ~IsValuesArtifact(f)

C6_Witness == Succeeded /\ fallback_ran /\ Result.extracted_values_count > 0

\* C7: when the fallback stage has run and the extractor returned at least
\* one value, exactly the three files _extracted_values.json, .csv and .xlsx
\* are produced, in that order, and extracted_values_count is the number of
\* records; when it returned none, none is produced and the count is 0. The
\* text "Total due: $42.00 by 2024-03-01" gives a non-empty export.
C7_ValuesExport ==
    Succeeded =>
        LET produced == SelectSeq(Result.output_files, IsValuesArtifact)
        IN  /\ (fallback_ran /\ extracted_values # <<>>) =>
                  /\ produced = <<values_json_path, values_csv_path, values_xlsx_path>>
                  /\ Range(produced) \subseteq disk
                  /\ Result.extracted_values_count = Len(extracted_values)
            /\ (fallback_ran /\ extracted_values = <<>>) =>
                  /\ produced = <<>>
                  /\ \A f \in disk : ~IsValuesArtifact(f)
                  /\ Result.extracted_values_count = 0
            /\ (fallback_ran /\ text_content = TextTotalDue) =>
                  /\ Result.extracted_values_count > 0
                  /\ produced # <<>>

C7_Witness == Succeeded /\ fallback_ran /\ text_content = TextTotalDue

\* C8: the percents passed to the progress callback in one invocation never
\* decrease, lie in 0..100 and follow 10, 50, 60, 65, (70 only when the
\* fallback stage runs), 80, 90, 100; a successful invocation emits all of
\* them and ends with 100.
C8_ProgressMilestones ==
    LET expected == IF fallback_ran THEN <<10, 50, 60, 65, 70, 80, 90, 100>>
                    ELSE <<10, 50, 60, 65, 80, 90, 100>>
    IN  /\ \A i \in 1..Len(progress) : progress[i] \in 0..100
        /\ \A i \in 1..(Len(progress) - 1) : progress[i] <= progress[i + 1]
        /\ IsPrefix(progress, expected)
        /\ has_callback /\ Succeeded => progress = expected
        /\ ~has_callback => progress = <<>>

C8_Witness == Succeeded /\ has_callback /\ fallback_ran /\ progress[Len(progress)] = 100

\* C9: output_files is in production order: JSON, markdown, HTML, the table
\* artifacts, the extracted-values artifacts, the images, the key-value and
\* form files; no artifact of a later group precedes one of an earlier group
\* (the groups of neighbours never decrease, so neither do those of any pair).
C9_ProductionOrder ==
    /\ \A i \in 1..(Len(output_files) - 1) :
          Group(output_files[i]) <= Group(output_files[i + 1])
    /\ Succeeded => Result.output_files = output_files

C9_Witness ==
    /\ Succeeded
    /\ {Group(f) : f \in Range(Result.output_files)} = {1, 2, 3, 4, 6, 7}
    /\ {xlsx_path, csv_path(1), kv_path, form_path} \subseteq Range(Result.output_files)

\* C10: the message of a successful result follows from the counters: no
\* qualifier when table_count > 0; the "no tables found, extracted N numeric
\* values" qualifier with N = extracted_values_count when table_count = 0 and
\* values were extracted; the "no tables or numeric values found" qualifier
\* when both are 0.
C10_FinalMessage ==
    Succeeded =>
        LET tc == Result.table_count
            n == Result.extracted_values_count
            m == Result.message
        IN  /\ m.head = "Successfully processed"
            /\ m.name = FileName
            /\ tc >= 0 /\ n >= 0
            /\ tc > 0 => m.qualifier = ""
            /\ (tc = 0 /\ n > 0) =>
                  /\ m.qualifier = "no tables found, extracted N numeric values"
                  /\ m.n = n
            /\ (tc = 0 /\ n = 0) => m.qualifier = "no tables or numeric values found"

C10_Witness ==
    Succeeded /\ Result.table_count = 0 /\ Result.extracted_values_count > 0

\* the pictures whose image was saved, and the figure paths of a list
SavedPictures == {i \in 1..Len(pictures) : pictures[i] = "image"}
FigurePaths(files) == SelectSeq(files, LAMBDA f : f.name = "_images/figure_N.png")

\* C11: after an invocation in which no picture was saved (picture_count = 0)
\* the images subfolder has not been created.
C11_LazyImagesFolder ==
    (Succeeded /\ Result.picture_count = 0) => images_folder \notin disk

\* C12: a picture whose materializing or saving raises is skipped and the
\* pictures after it are still exported; picture_count is the number of
\* figure_N.png paths in output_files, one for each picture that was saved
\* and none for another, and it is 0 when options.images is off.
C12_PicturesCounted ==
    /\ picture_count = Cardinality(SavedPictures)
    /\ picture_count = Len(FigurePaths(output_files))
    /\ \A i \in 1..Len(pictures) :
          /\ img_path(i) \in Range(output_files) <=> pictures[i] = "image"
          /\ img_path(i) \in disk <=> pictures[i] = "image"
    /\ ~options["images"] => (picture_count = 0 /\ FigurePaths(output_files) = <<>>)
    /\ (pc = "cb90" /\ SavedPictures # 1..Len(pictures)) => (exc = "none" /\ result = <<>>)
    /\ Succeeded =>
          /\ Result.picture_count = Len(FigurePaths(Result.output_files))
          /\ Result.picture_count = Cardinality(SavedPictures)

C12_Witness ==
    /\ Succeeded
    /\ pictures = <<"skipped", "image">>
    /\ Result.picture_count = 1
    /\ img_path(2) \in Range(Result.output_files)

\* the second invocation of process, on the same document or on another one
SecondOfSame == run = 2 /\ first # <<>>
SecondOfOther == run = 2 /\ first = <<>>

NoDuplicates(files) == \A i, j \in 1..Len(files) : files[i] = files[j] => i = j

C14_NoCrossDocumentState ==
    /\ pc = "mkdir" =>
          /\ output_files = <<>> /\ disk = {} /\ workbook = <<>> /\ progress = <<>>
          /\ tables = <<>> /\ table_dataframes = <<>> /\ table_count = 0
          /\ pictures = <<>> /\ picture_count = 0
          /\ extracted_values = <<>> /\ extracted_values_count = 0 /\ ~fallback_ran
          /\ doc = "unset" /\ exc = "none" /\ result = <<>>
    /\ run = 1 /\ pc \in {"mkdir", "cb10", "convert"} => converter = "none"
    /\ (SecondOfOther /\ Succeeded) =>
          /\ Result.output_files = output_files
          /\ NoDuplicates(Result.output_files)
          /\ Range(Result.output_files) \subseteq disk
          /\ disk \subseteq Range(Result.output_files) \cup {images_folder}
          /\ Result.table_count = Cardinality(GoodTables)
          /\ Result.picture_count = Cardinality(SavedPictures)
          /\ Result.extracted_values_count =
                (IF fallback_ran THEN Len(extracted_values) ELSE 0)

C14_Witness ==
    /\ SecondOfOther
    /\ Succeeded
    /\ converter = "created"
    /\ Result.table_count = 0
    /\ Result.output_files # <<>>

(* ---------------------- the batch driver's properties ---------------- *)
\* the workers whose process call runs or whose finished signal waits
InFlight == {i \in 1..Len(threads) : threads[i].state \in {"processing", "emitted"}}

\* between _set_processing_state(True) and _set_processing_state(False)
Processing == ~enabled["btn_clear"]

\* C15: documents are processed one at a time: never more than one worker
\* exists, it is self.current_worker and works on the head of the queue, no
\* control that could start another is enabled while it exists, and a
\* worker is started only when the finished signal of the one before has
\* been handled (as many files were handed to workers as queue entries
\* were popped, plus one for the worker that exists).
C15_OneWorkerAtATime ==
    /\ Len(threads) <= 1
    /\ Cardinality(InFlight) <= 1
    /\ current_worker = <<>> <=> threads = <<>>
    /\ threads # <<>> =>
          /\ current_worker = <<threads[1].file_path>>
          /\ \A w \in Widgets : ~enabled[w]
          /\ pending_files # <<>>
          /\ current_worker = <<pending_files[1]>>
    /\ Len(handed) = Len(removed) + Len(threads)

C15_Witness ==
    /\ Len(handed) = 2
    /\ Len(removed) = 1
    /\ threads # <<>>
    /\ threads[1].state = "processing"
    /\ Len(pending_files) = 2

\* what holds of a batch at every moment
BatchInv ==
    /\ NoDuplicates(batch)
    /\ IsPrefix(handed, batch)
    /\ Len(removed) <= Len(handed)
    /\ \A k \in 1..Len(removed) :
          removed[k].file_path = handed[k] /\ removed[k].by = handed[k]
    /\ Processing => pending_files = SubSeq(batch, Len(removed) + 1, Len(batch))
    /\ ~Processing => (handed = batch /\ Len(removed) = Len(batch))

TextTotal1500 ==
    <<"T", "o", "t", "a", "l", ":", " ", "1", "5", "0", "0">>

\* C17: extracting from "Total: 1500" yields a record for the match 1500
\* whose tag is price and whose confidence is high.
C17_ContextUpgrade ==
    (calls > 0 /\ text = TextTotal1500) =>
        \E i \in 1..Len(filtered) :
            /\ filtered[i].value = <<"1", "5", "0", "0">>
            /\ filtered[i].tag = "price"
            /\ filtered[i].confidence = "high"

\* C18: extracting from "see page 3 and 7" returns no record for the match 3
\* and no record for the match 7.
C18_PageNumbersSuppressed ==
    (calls > 0 /\ text = TextPages) =>
        \A i \in 1..Len(filtered) : filtered[i].value \notin {<<"3">>, <<"7">>}

\* a record the noise filter is to drop
BareSmallInteger(ev) ==
    ev.tag = "integer" /\ ev.confidence = "low" /\ LessThanTen(ev.numeric_value)

KeyOf(t, p) == <<p[2], SubSeq(t, p[2], p[3] - 1)>>

\* the visited matches no earlier visited match shares its key with
FirstOfKey(t, sc) ==
    {i \in 1..Len(sc) : \A j \in 1..(i - 1) : KeyOf(t, sc[j]) # KeyOf(t, sc[i])}

\* the n-th smallest member of a set of numbers
Nth(S, n) == CHOOSE i \in S : Cardinality({j \in S : j < i}) = n - 1

\* a record that pattern k produces: its tag and confidence are the pattern's,
\* up to what the context tagger may change
OfPattern(ev, k) ==
    /\ ev.tag = patterns[k][2] \/ patterns[k][2] \in GenericTags
    /\ \/ ev.confidence = patterns[k][3]
       \/ patterns[k][3] = "medium" /\ ev.confidence = "high"

Overlap(p, q) == p[2] # q[2] /\ p[2] < q[3] /\ q[2] < p[3]

Producers ==
    SelectSeq(visited,
              LAMBDA p : \A j \in 1..Len(visited) :
                            KeyOf(text, visited[j]) = KeyOf(text, p)
                                => <<p[1], p[2]>> = <<visited[j][1], visited[j][2]>>
                                   \/ p[1] < visited[j][1])

StructuralTags == {"currency", "percentage", "date", "phone", "year"}

TextDate == <<"2", "0", "2", "4", "-", "0", "1", "-", "1", "5">>

\* C21: every record produced by a pattern whose default tag is currency,
\* percentage, date, phone or year has that default tag and that pattern's
\* base confidence, whatever keywords occur in its context; the record of
\* 2024-01-15 has tag date.
C21_StructuralTagsKept ==
    calls > 0 =>
        /\ Len(extracted) = Len(Producers)
        /\ LET made == Producers
           IN  \A n \in 1..Len(extracted) :
                  LET k == made[n][1]
                  IN  patterns[k][2] \in StructuralTags =>
                          /\ extracted[n].tag = patterns[k][2]
                          /\ extracted[n].confidence = patterns[k][3]
        /\ \A n \in 1..Len(extracted) :
              extracted[n].value = TextDate => extracted[n].tag = "date"

\* the record of 2024-01-15 and a record of a medium-confidence structural
\* pattern, each with a keyword in its context
C21_Witness ==
    /\ calls > 0
    /\ Len(extracted) = Len(Producers)
    /\ \E n \in 1..Len(extracted) :
          /\ extracted[n].value = TextDate
          /\ FirstHit(LowerAll(extracted[n].context)) # 0
    /\ \E n \in 1..Len(extracted) :
          /\ patterns[Producers[n][1]][2] \in StructuralTags
          /\ patterns[Producers[n][1]][3] = "medium"
          /\ FirstHit(LowerAll(extracted[n].context)) # 0

TextPhone == <<"5", "5", "5", "-", "1", "2", "3", "-", "4", "5", "6", "7">>

\* a cleaned text float() rejects: no digit, a sign after the first
\* character, or more than one point
Unparsable(s) ==
    \/ \A i \in 1..Len(s) : s[i] \notin Digit
    \/ \E i \in 2..Len(s) : s[i] = "-"
    \/ \E i, j \in 1..Len(s) : i < j /\ s[i] = "." /\ s[j] = "."

\* C22: every visited match with a new (offset, text) key yields a record; a
\* record whose cleaned text is not a valid number has numeric value 0.0,
\* the tag of its pattern and the context of its match, and is returned.
C22_ParseFailureIsZero ==
    calls > 0 =>
        /\ Len(extracted) = Len(Producers)
        /\ LET made == Producers
           IN  \A n \in 1..Len(extracted) :
                  LET ev == extracted[n]
                      p == made[n]
                  IN  Unparsable(CleanValue(ev.value)) =>
                          /\ ev.numeric_value = [neg |-> FALSE, int |-> <<>>, frac |-> <<>>]
                          /\ ev.value = SubSeq(text, p[2], p[3] - 1)
                          /\ OfPattern(ev, p[1])
                          /\ ev.context = Context(text, p[2], p[3])
                          /\ ev \in Range(filtered)

\* a date and a phone number in one text, each returned with numeric value
\* 0.0 and its tag
C22_Witness ==
    /\ calls > 0
    /\ \E i, j \in 1..Len(filtered) :
          /\ filtered[i].value = TextDate
          /\ filtered[i].tag = "date"
          /\ filtered[j].value = TextPhone
          /\ filtered[j].tag = "phone"
          /\ \A x \in {i, j} :
                /\ Unparsable(CleanValue(filtered[x].value))
                /\ filtered[x].numeric_value.int = <<>>
                /\ filtered[x].numeric_value.frac = <<>>

TextDollars == <<"$", "1", ",", "2", "3", "4", ".", "5", "6">>
TextEuros == <<"1", ".", "2", "3", "4", ",", "5", "6", " ", "E", "U", "R">>
TextPercent == <<"4", "5", "%">>

Number(int, frac) == [neg |-> FALSE, int |-> int, frac |-> frac]

Count(s, c) == Cardinality({i \in 1..Len(s) : s[i] = c})

\* the value of the digits of s, read as an integer and as a fraction
IntPart(s) == NoLeadingZeros(SelectSeq(s, LAMBDA c : c \in Digit))
FracPart(s) == NoTrailingZeros(SelectSeq(s, LAMBDA c : c \in Digit))

\* the number the rule of the separators gives the matched text v: the
\* separator that occurs last is the decimal point when both occur, and a
\* comma alone groups digits
Normalised(ev) ==
    LET s == SelectSeq(ev.value, LAMBDA c : c \in Digit \cup {".", ",", "-"})
        lastc == RFind(s, ",")
        lastp == RFind(s, ".")
        point == Max(lastc, lastp)
    IN  Count(s, "-") = 0 =>
            /\ (lastc > 0 /\ lastp > 0 /\ Count(s, s[point]) = 1) =>
                  ev.numeric_value = Number(IntPart(SubSeq(s, 1, point - 1)),
                                            FracPart(SubSeq(s, point + 1, Len(s))))
            /\ (lastc > 0 /\ lastp = 0) =>
                  ev.numeric_value = Number(IntPart(s), <<>>)

\* C23: the numeric value of every produced record follows the rule of the
\* separators; "$1,234.56" gives a record with numeric value 1234.56, tag
\* currency and confidence high, "1.234,56 EUR" one with 1234.56 and tag
\* currency, "45%" one with 45.0 and tag percentage.
C23_Normalisation ==
    calls > 0 =>
        /\ \A n \in 1..Len(extracted) : Normalised(extracted[n])
        /\ \A n \in 1..Len(extracted) :
              LET ev == extracted[n]
              IN  /\ ev.value = TextDollars =>
                        /\ ev.numeric_value
                               = Number(<<"1", "2", "3", "4">>, <<"5", "6">>)
                        /\ ev.tag = "currency"
                        /\ ev.confidence = "high"
                  /\ ev.value = TextEuros =>
                        /\ ev.numeric_value
                               = Number(<<"1", "2", "3", "4">>, <<"5", "6">>)
                        /\ ev.tag = "currency"
                  /\ ev.value = TextPercent =>
                        /\ ev.numeric_value = Number(<<"4", "5">>, <<>>)
                        /\ ev.tag = "percentage"
        /\ \A v \in {TextDollars, TextEuros, TextPercent} :
              text = v => \E i \in 1..Len(filtered) : filtered[i].value = v

\* "1.234,56 EUR" and a text whose only separator is a comma in one text,
\* both returned
C23_Witness ==
    /\ calls > 0
    /\ \E i, j \in 1..Len(filtered) :
          /\ filtered[i].value = TextEuros
          /\ filtered[j].value = <<"1", ",", "2", "5", "0">>
          /\ filtered[j].numeric_value = Number(<<"1", "2", "5", "0">>, <<>>)

\* s is t without some of its members, in the order of t
RECURSIVE Embeds(_, _)
Embeds(s, t) ==
    IF s = <<>> THEN TRUE
    ELSE IF t = <<>> THEN FALSE
    ELSE IF Head(s) = Head(t) THEN Embeds(Tail(s), Tail(t))
    ELSE Embeds(s, Tail(t))

C25_ConfidenceOfOwnContext ==
    calls > 0 =>
        LET made == Producers
        IN  /\ Len(extracted) = Len(made)
            /\ \A n \in 1..Len(extracted) :
                  LET k == made[n][1]
                      keyword == FirstHit(LowerAll(extracted[n].context)) # 0
                  IN  patterns[k][2] \in GenericTags =>
                          /\ ~keyword => extracted[n].tag = patterns[k][2]
                          /\ extracted[n].confidence
                                 = IF keyword /\ patterns[k][3] = "medium"
                                   THEN "high" ELSE patterns[k][3]

Declared ==
    <<"price", "quantity", "percentage", "date", "id", "measurement", "temperature",
      "dimension", "time", "age", "score">>

\* the categories with a keyword that is a substring of the context
Hits(context_lower) ==
    {k \in 1..Len(context_tags) :
        \E kw \in Range(context_tags[k][2]) : Contains(context_lower, kw)}

\* C26: the tag of a record of a generic pattern is the first category, in
\* the declared order, with a keyword that is a substring of the lower-cased
\* context, whatever later categories have one, and the default tag of its
\* pattern when no category has one.
C26_FirstMatchWins ==
    calls > 0 =>
        LET made == Producers
        IN  /\ Len(extracted) = Len(made)
            /\ [k \in 1..Len(context_tags) |-> context_tags[k][1]] = Declared
            /\ \A n \in 1..Len(extracted) :
                  LET hits == Hits(LowerAll(extracted[n].context))
                  IN  patterns[made[n][1]][2] \in GenericTags =>
                          IF hits = {}
                          THEN extracted[n].tag = patterns[made[n][1]][2]
                          ELSE \E k \in hits :
                                  /\ extracted[n].tag = Declared[k]
                                  /\ \A j \in 1..(k - 1) : j \notin hits

\* a text with two generic records whose contexts have keywords of several
\* categories, the first of them price for one and measurement for the other
C26_Witness ==
    /\ calls > 0
    /\ Len(extracted) = Len(Producers)
    /\ \E n, m \in 1..Len(extracted) :
          /\ patterns[Producers[n][1]][2] \in GenericTags
          /\ patterns[Producers[m][1]][2] \in GenericTags
          /\ extracted[n].tag = "price"
          /\ extracted[m].tag = "measurement"
          /\ Cardinality(Hits(LowerAll(extracted[n].context))) > 1
          /\ Cardinality(Hits(LowerAll(extracted[m].context))) > 1

(* ------------------- the pipeline's failures, again ------------------ *)
\* C27: process does not end by raising to its caller, and a failure result
\* has success false, no output files and counters of 0.
C27_NeverPropagates ==
    /\ pc # "propagated"
    /\ Failed =>
          /\ Result.output_files = <<>>
          /\ Result.table_count = 0
          /\ Result.page_count = 0
          /\ Result.picture_count = 0
          /\ Result.extracted_values_count = 0

\* C28: an invocation whose callback was called with 100 returns a result
\* with success true.
C28_CompleteOnlyOnSuccess ==
    (Returned /\ \E i \in 1..Len(progress) : progress[i] = 100) => Result.success

(* ----------------------- the Process Files button -------------------- *)
\* C29: the Process Files button is enabled only when the queue is not
\* empty and no worker is running.
C29_ProcessButton ==
    enabled["btn_process"] => pending_files # <<>> /\ current_worker = <<>>

====
